---- MODULE Spec2Model ----
(***************************************************************************)
(* The inter-service request path of the go-api / react-app deployment:    *)
(* the Go backend (go-api/main.go: rs/cors wrapped around the default      *)
(* ServeMux with one handler on "/"), the go-api-service Service in front  *)
(* of the go-api pods (k8s/go-deployment.yaml), and the React client       *)
(* (App.js: one fetch in a mount effect, the text committed to message).   *)
(*                                                                         *)
(* An HTTP header that is absent is the empty string (or the empty set),   *)
(* as Go's Header.Get returns it.  A URL path is the sequence of its       *)
(* segments after the leading slash: "/" is <<"">>, "/api/" is             *)
(* <<"api", "">>, "//api" is <<"", "api">>.  A response body is the        *)
(* sequence of the chunks written to it.                                   *)
(***************************************************************************)
EXTENDS Naturals, Sequences, FiniteSets, TLC

VARIABLES
    pods,                  \* pod -> the state of its backend process
    optionsSuccessStatus,  \* the status rs/cors gives a pre-flight (set by the linked version)
    conn,                  \* the exchange of a direct caller of the service
    sess                   \* client session -> the App component's state

vars == <<pods, optionsSuccessStatus, conn, sess>>

----------------------------------------------------------------------------
(* Bounds *)

MaxReplicas == 3
NumSessions == 2

Pods == 1..MaxReplicas
Sessions == 1..NumSessions

----------------------------------------------------------------------------
(* Inputs *)

Hello == "Hello from Go API!"

Methods == {"GET", "POST", "PUT", "DELETE", "OPTIONS", "HEAD", "PATCH"}

\* The values drawn for Access-Control-Request-Method ("" is no header).
RequestedMethods == {"", "GET", "POST", "PUT", "DELETE", "OPTIONS", "PATCH"}

Origins == {"", "http://a.example", "http://b.example"}

RequestHeaderNames == {"Content-Type", "Authorization"}

Paths ==
    { <<"">>, <<"api">>, <<"api", "">>, <<"", "api">>, <<"api", "..">>, <<"..">> }

RootPath == <<"">>

\* Access-Control-Request-* headers are what a pre-flight carries: they are
\* drawn for OPTIONS requests only.
Requests ==
    [method : Methods \ {"OPTIONS"}, path : Paths, origin : Origins,
     acrm : {""}, acrh : {{}}]
    \cup
    [method : {"OPTIONS"}, path : Paths, origin : Origins,
     acrm : RequestedMethods, acrh : SUBSET RequestHeaderNames]

----------------------------------------------------------------------------
(* net/http: the response writer *)

NewWriter ==
    [status |-> 0, acao |-> "", acam |-> "", acah |-> {}, vary |-> {},
     location |-> <<>>, body |-> <<>>, reached |-> {}]

\* 1xx, 204 and 304 carry no body.
bodyAllowedForStatus(status) ==
    ~(status \in 100..199 \/ status = 204 \/ status = 304)

WriteHeader(w, code) ==
    IF w.status = 0 THEN [w EXCEPT !.status = code] ELSE w

\* The first Write sends the header with status 200; a HEAD request's body
\* is swallowed, and so is a body the status does not allow.
Write(w, r, chunk) ==
    LET w1 == WriteHeader(w, 200)
    IN  IF r.method = "HEAD" \/ ~bodyAllowedForStatus(w1.status)
        THEN w1
        ELSE [w1 EXCEPT !.body = Append(@, chunk)]

----------------------------------------------------------------------------
(* go-api/main.go *)

handlerTypo(w, r) ==
    Write([w EXCEPT !.reached = @ \cup {"handler"}], r, "Hello from Go API")

\* fmt.Fprintf(w, "Hello from Go API!")
handler(w, r) ==
    Write([w EXCEPT !.reached = @ \cup {"handler"}], r, Hello)

corsOptionsOneOrigin ==
    [AllowedOrigins |-> {"http://localhost:3000"},
     AllowedMethods |-> {"GET", "POST", "PUT", "DELETE", "OPTIONS"},
     AllowedHeaders |-> {"Content-Type"},
     OptionsPassthrough |-> FALSE]

corsOptionsPassthrough ==
    [AllowedOrigins |-> {"*"},
     AllowedMethods |-> {"GET", "POST", "PUT", "DELETE", "OPTIONS"},
     AllowedHeaders |-> {"Content-Type"},
     OptionsPassthrough |-> TRUE]

\* cors.Options as main gives them; OptionsPassthrough keeps its zero value.
corsOptions ==
    [AllowedOrigins |-> {"*"},
     AllowedMethods |-> {"GET", "POST", "PUT", "DELETE", "OPTIONS"},
     AllowedHeaders |-> {"Content-Type"},
     OptionsPassthrough |-> FALSE]

ListenPort == 8080

HandlePatternApi == <<"api", "">>

\* The pattern of http.HandleFunc("/", handler).
HandlePattern == RootPath

\* A process that is not running: it listens on no port.
NotRunning ==
    [listen |-> 0, root |-> "DefaultServeMux", cors |-> corsOptions, mux |-> {}]

\* main without its http.HandleFunc call.
mainNoHandleFunc ==
    [listen |-> ListenPort, root |-> "handlerWithCORS", cors |-> corsOptions,
     mux |-> {}]

\* main serving the default mux itself: http.ListenAndServe(":8080", nil).
mainWithoutCORS ==
    [listen |-> ListenPort, root |-> "DefaultServeMux", cors |-> corsOptions,
     mux |-> {[pattern |-> HandlePattern, h |-> "handler"]}]

\* main: cors.New, http.HandleFunc("/", handler), corsHandler.Handler over
\* the default mux, http.ListenAndServe(":8080", handlerWithCORS).  The
\* process is what it is once ListenAndServe has been called.
main ==
    LET corsHandler == corsOptions
        DefaultServeMux == {[pattern |-> HandlePattern, h |-> "handler"]}
    IN  [listen |-> ListenPort, root |-> "handlerWithCORS",
         cors |-> corsHandler, mux |-> DefaultServeMux]

----------------------------------------------------------------------------
(* rs/cors: the middleware corsHandler.Handler puts around the mux *)

isOriginAllowed(c, origin) ==
    "*" \in c.AllowedOrigins \/ origin \in c.AllowedOrigins

isMethodAllowed(c, method) ==
    /\ c.AllowedMethods # {}
    /\ (method = "OPTIONS" \/ method \in c.AllowedMethods)

areHeadersAllowed(c, names) ==
    "*" \in c.AllowedHeaders \/ names \subseteq c.AllowedHeaders

allowOriginValue(c, origin) ==
    IF "*" \in c.AllowedOrigins THEN "*" ELSE origin

handlePreflight(c, w, r) ==
    LET w1 == [w EXCEPT !.vary = @ \cup {"Origin", "Access-Control-Request-Method",
                                         "Access-Control-Request-Headers"}]
    IN  IF r.method # "OPTIONS" THEN w
        ELSE IF r.origin = "" THEN w1
        ELSE IF ~isOriginAllowed(c, r.origin) THEN w1
        ELSE IF ~isMethodAllowed(c, r.acrm) THEN w1
        ELSE IF ~areHeadersAllowed(c, r.acrh) THEN w1
        ELSE [w1 EXCEPT !.acao = allowOriginValue(c, r.origin),
                        !.acam = r.acrm,
                        !.acah = r.acrh]

handleActualRequest(c, w, r) ==
    LET w1 == [w EXCEPT !.vary = @ \cup {"Origin"}]
    IN  IF r.origin = "" THEN w1
        ELSE IF ~isOriginAllowed(c, r.origin) THEN w1
        ELSE IF ~isMethodAllowed(c, r.method) THEN w1
        ELSE [w1 EXCEPT !.acao = allowOriginValue(c, r.origin)]

isPreflight(r) == r.method = "OPTIONS" /\ r.acrm # ""

----------------------------------------------------------------------------
(* net/http: the default ServeMux *)

RECURSIVE Clean(_, _)
Clean(segs, stack) ==
    IF segs = <<>> THEN stack
    ELSE LET s == Head(segs)
         IN  Clean(Tail(segs),
                   IF s \in {"", "."} THEN stack
                   ELSE IF s = ".."
                        THEN (IF stack = <<>> THEN <<>>
                              ELSE SubSeq(stack, 1, Len(stack) - 1))
                        ELSE Append(stack, s))

\* path.Clean, with the trailing slash put back.
cleanPath(p) ==
    LET np == Clean(p, <<>>)
    IN  IF np = <<>> THEN RootPath
        ELSE IF p[Len(p)] = "" THEN Append(np, "") ELSE np

IsPrefix(a, b) == Len(a) <= Len(b) /\ SubSeq(b, 1, Len(a)) = a

\* A pattern matches its own path; one ending in a slash matches its subtree.
patternMatches(pattern, path) ==
    \/ path = pattern
    \/ /\ pattern[Len(pattern)] = ""
       /\ IsPrefix(SubSeq(pattern, 1, Len(pattern) - 1), path)

\* The handlers registered for the longest matching pattern.
muxMatch(mux, path) ==
    LET hits == {e \in mux : patternMatches(e.pattern, path)}
    IN  {e \in hits : \A f \in hits : Len(f.pattern) <= Len(e.pattern)}

NotFound(w, r) == Write(WriteHeader(w, 404), r, "404 page not found")

Redirect(w, r, to) ==
    LET w1 == WriteHeader([w EXCEPT !.location = to], 301)
    IN  IF r.method = "GET" THEN Write(w1, r, "Moved Permanently") ELSE w1

\* ServeMux.ServeHTTP: a path that is not clean is redirected to its clean
\* form; otherwise the handler of the longest matching pattern runs.
muxServeHTTP(mux, w, r) ==
    LET path == cleanPath(r.path)
        w1 == [w EXCEPT !.reached = @ \cup {"mux"}]
    IN  IF path # r.path THEN Redirect(w1, r, path)
        ELSE IF muxMatch(mux, r.path) = {} THEN NotFound(w1, r)
        ELSE handler(w1, r)

----------------------------------------------------------------------------
(* k8s/go-deployment.yaml *)

ContainerPort == 8080
ServicePort == 8080
TargetPort == 8080
NodePort == 30002

PodLabels == [app |-> "go-api"]

ServiceName == "go-api-service"

ServiceSelectorReact == [app |-> "react-app"]

ServiceSelector == [app |-> "go-api"]

NodeIP == "192.168.67.2"

Running == {p \in Pods : pods[p] # NotRunning}

\* The pods the Service selects.
Endpoints == {p \in Running : PodLabels = ServiceSelector}

\* Whether an address is one the Service answers on: its name and port
\* inside the cluster, or a node's address and the node port.
isServiceAddress(t) ==
    \/ t.host = ServiceName /\ t.port = ServicePort
    \/ t.host = NodeIP /\ t.port = NodePort

Targets ==
    { [host |-> ServiceName, port |-> ServicePort],
      [host |-> NodeIP, port |-> NodePort],
      [host |-> ServiceName, port |-> 80] }

----------------------------------------------------------------------------
(* One HTTP exchange: dialled, accepted by a pod, served in two steps      *)
(* (the CORS middleware, then the mux), answered.                          *)

NoRequest ==
    [method |-> "", path |-> <<>>, origin |-> "", acrm |-> "", acrh |-> {}]

IdleX ==
    [state |-> "idle", req |-> NoRequest, pod |-> 0, up |-> FALSE, w |-> NewWriter]

\* The outcomes of dialling address t with request r.
Dial(t, r) ==
    LET sent == [IdleX EXCEPT !.req = r, !.up = (Running # {})]
    IN  IF ~isServiceAddress(t) \/ Endpoints = {}
        THEN {[IdleX EXCEPT !.state = "refused", !.up = (Running # {})]}
        ELSE {[sent EXCEPT !.state = IF pods[p].listen = TargetPort
                                      THEN "accepted" ELSE "refused",
                           !.pod = p] : p \in Endpoints}

\* The handler given to ListenAndServe takes the request.  corsHandler.Handler:
\* a pre-flight is answered here; any other request gets its CORS headers
\* and goes on to the mux.
corsServe(x) ==
    LET c == pods[x.pod].cors
        w0 == [x.w EXCEPT !.reached = @ \cup {"cors"}]
    IN  IF pods[x.pod].root # "handlerWithCORS"
        THEN [x EXCEPT !.state = "inner"]
        ELSE IF isPreflight(x.req)
        THEN LET w1 == handlePreflight(c, w0, x.req)
             IN  IF c.OptionsPassthrough
                 THEN [x EXCEPT !.w = w1, !.state = "inner"]
                 ELSE [x EXCEPT !.w = WriteHeader(w1, optionsSuccessStatus),
                                !.state = "done"]
        ELSE [x EXCEPT !.w = handleActualRequest(c, w0, x.req),
                       !.state = "inner"]

muxServe(x) ==
    [x EXCEPT !.w = muxServeHTTP(pods[x.pod].mux, x.w, x.req), !.state = "done"]

\* What an exchange becomes when pod p stops.
AfterCrash(x, p) ==
    IF x.pod = p /\ x.state \in {"accepted", "inner"}
    THEN [IdleX EXCEPT !.state = "reset", !.pod = p, !.up = x.up] ELSE x

----------------------------------------------------------------------------
(* Pods *)

StartPod(p) ==
    /\ pods[p] = NotRunning
    /\ pods' = [pods EXCEPT ![p] = main]
    /\ UNCHANGED <<optionsSuccessStatus, conn, sess>>

CrashPod(p) ==
    /\ pods[p] # NotRunning
    /\ pods' = [pods EXCEPT ![p] = NotRunning]
    /\ conn' = AfterCrash(conn, p)
    /\ sess' = [s \in Sessions |-> [sess[s] EXCEPT !.x = AfterCrash(@, p)]]
    /\ UNCHANGED optionsSuccessStatus

----------------------------------------------------------------------------
(* A direct caller of the service (curl, a browser's pre-flight) *)

Send(r, t) ==
    /\ conn.state = "idle"
    /\ conn' \in Dial(t, r)
    /\ UNCHANGED <<pods, optionsSuccessStatus, sess>>

ServeCors ==
    /\ conn.state = "accepted"
    /\ conn' = corsServe(conn)
    /\ UNCHANGED <<pods, optionsSuccessStatus, sess>>

ServeMux ==
    /\ conn.state = "inner"
    /\ conn' = muxServe(conn)
    /\ UNCHANGED <<pods, optionsSuccessStatus, sess>>

Close ==
    /\ conn.state \in {"done", "refused", "reset"}
    /\ conn' = IdleX
    /\ UNCHANGED <<pods, optionsSuccessStatus, sess>>

----------------------------------------------------------------------------
(* react-app/src/App.js *)

\* The page is served by react-service on the node port 30000.
PageOrigin == "http://192.168.67.2:30000"

FetchTarget == [host |-> "go-api-service", port |-> 8080]

\* fetch(url) with no options: a GET of "/" that carries the page's origin.
FetchRequest ==
    [method |-> "GET", path |-> RootPath, origin |-> PageOrigin,
     acrm |-> "", acrh |-> {}]

NoResponse == [status |-> 0, body |-> <<>>]

\* useState(''), nothing rendered yet.
NewApp ==
    [pc |-> "unmounted", message |-> "", dom |-> "", issued |-> 0, changes |-> 0,
     x |-> IdleX, answered |-> FALSE, res |-> NoResponse, data |-> ""]

\* <h1>{message || "Loading..."}</h1>
Render(message) == IF message = "" THEN "Loading..." ELSE message

RECURSIVE text(_)
\* res.text(): the body's chunks, joined.
text(body) == IF body = <<>> THEN "" ELSE Head(body) \o text(Tail(body))

\* The browser lets a cross-origin response through to the script only when
\* its Access-Control-Allow-Origin is "*" or the page's origin.
corsCheck(w, origin) == w.acao = "*" \/ w.acao = origin

effectRunsEveryRender(mounted) == TRUE

\* useEffect(..., []): the effect runs after the first render only.
effectRuns(mounted) == ~mounted

startFetch(c) ==
    [c EXCEPT !.pc = "fetching", !.issued = @ + 1,
              !.x = [IdleX EXCEPT !.state = "sent", !.req = FetchRequest]]

\* The exchange once the fetch has settled: how it ended is all that is kept.
Settled(x) == [IdleX EXCEPT !.state = x.state, !.up = x.up]

fetchRejectedShowsError(c) ==
    [c EXCEPT !.pc = "rejected", !.x = Settled(@), !.message = "Failed to fetch",
              !.changes = @ + 1, !.dom = Render("Failed to fetch")]

\* The promise chain has no catch: a rejected fetch changes nothing.
fetchRejected(c) == [c EXCEPT !.pc = "rejected", !.x = Settled(@)]

\* .then(res => res.text()), whatever the status of res.
thenText(c) == [c EXCEPT !.pc = "text", !.data = text(c.res.body)]

\* setMessage(data): a changed state renders again; the effect runs again
\* only if its dependencies say so.
setMessage(c) ==
    IF c.data = c.message THEN [c EXCEPT !.pc = "done"]
    ELSE LET c1 == [c EXCEPT !.message = c.data, !.changes = @ + 1,
                             !.dom = Render(c.data), !.pc = "done"]
         IN  IF effectRuns(TRUE) THEN startFetch(c1) ELSE c1

\* What a party other than the backend (a proxy, another server at the
\* address) may answer with.
UpstreamErrors ==
    { [NewWriter EXCEPT !.status = 503, !.body = <<"Service Unavailable">>,
                        !.acao = "*"],
      [NewWriter EXCEPT !.status = 502, !.body = <<"Bad Gateway">>] }

Mount(s) ==
    /\ sess[s].pc = "unmounted"
    /\ LET c1 == [sess[s] EXCEPT !.dom = Render(sess[s].message)]
       IN  sess' = [sess EXCEPT
                      ![s] = IF effectRuns(FALSE) THEN startFetch(c1)
                             ELSE [c1 EXCEPT !.pc = "done"]]
    /\ UNCHANGED <<pods, optionsSuccessStatus, conn>>

FetchDial(s) ==
    /\ sess[s].x.state = "sent"
    /\ \E x \in Dial(FetchTarget, sess[s].x.req) :
          sess' = [sess EXCEPT ![s].x = x]
    /\ UNCHANGED <<pods, optionsSuccessStatus, conn>>

UpstreamAnswer(s, e) ==
    /\ sess[s].x.state = "sent"
    /\ sess' = [sess EXCEPT ![s].x = [@ EXCEPT !.state = "done", !.w = e]]
    /\ UNCHANGED <<pods, optionsSuccessStatus, conn>>

BackendCors(s) ==
    /\ sess[s].x.state = "accepted"
    /\ sess' = [sess EXCEPT ![s].x = corsServe(@)]
    /\ UNCHANGED <<pods, optionsSuccessStatus, conn>>

BackendMux(s) ==
    /\ sess[s].x.state = "inner"
    /\ sess' = [sess EXCEPT ![s].x = muxServe(@)]
    /\ UNCHANGED <<pods, optionsSuccessStatus, conn>>

FetchSettle(s) ==
    /\ sess[s].pc = "fetching"
    /\ sess[s].x.state = "done"
    /\ LET c == [sess[s] EXCEPT !.answered = (sess[s].x.pod \in Pods)]
       IN  sess' = [sess EXCEPT
                      ![s] = IF corsCheck(c.x.w, c.x.req.origin)
                             THEN [c EXCEPT !.pc = "resolved", !.x = Settled(@),
                                            !.res = [status |-> c.x.w.status,
                                                     body |-> c.x.w.body]]
                             ELSE fetchRejected(c)]
    /\ UNCHANGED <<pods, optionsSuccessStatus, conn>>

FetchFail(s) ==
    /\ sess[s].pc = "fetching"
    /\ sess[s].x.state \in {"refused", "reset"}
    /\ sess' = [sess EXCEPT ![s] = fetchRejected(@)]
    /\ UNCHANGED <<pods, optionsSuccessStatus, conn>>

ReadText(s) ==
    /\ sess[s].pc = "resolved"
    /\ sess' = [sess EXCEPT ![s] = thenText(@)]
    /\ UNCHANGED <<pods, optionsSuccessStatus, conn>>

SetMessage(s) ==
    /\ sess[s].pc = "text"
    /\ sess' = [sess EXCEPT ![s] = setMessage(@)]
    /\ UNCHANGED <<pods, optionsSuccessStatus, conn>>

----------------------------------------------------------------------------
(* Specifications *)

Init ==
    /\ pods = [p \in Pods |-> NotRunning]
    /\ optionsSuccessStatus \in {200, 204}
    /\ conn = IdleX
    /\ sess = [s \in Sessions |-> NewApp]

PodNext == \E p \in Pods : StartPod(p) \/ CrashPod(p)

\* The client sessions in front of the service.
Next ==
    \/ PodNext
    \/ \E s \in Sessions :
          \/ Mount(s)
          \/ FetchDial(s)
          \/ \E e \in UpstreamErrors : UpstreamAnswer(s, e)
          \/ BackendCors(s)
          \/ BackendMux(s)
          \/ FetchSettle(s)
          \/ FetchFail(s)
          \/ ReadText(s)
          \/ SetMessage(s)

Spec == Init /\ [][Next]_vars

\* A direct caller in front of the service.
ServerNext ==
    \/ PodNext
    \/ \E r \in Requests, t \in Targets : Send(r, t)
    \/ ServeCors
    \/ ServeMux
    \/ Close

ServerSpec == Init /\ [][ServerNext]_vars

----------------------------------------------------------------------------
(* Properties *)

Success(status) == status \in 200..299

ConfiguredMethods == {"GET", "POST", "PUT", "DELETE", "OPTIONS"}

ConfiguredHeaders == {"Content-Type"}

\* The direct caller holds an answer from a pod.
Answered == conn.state = "done"

\* The answered request was handled as a pre-flight would be.
AnsweredPreflight == conn.req.method = "OPTIONS" /\ conn.req.acrm # ""

\* The answered pre-flight asks for nothing the configured policy refuses.
WithinPolicy ==
    /\ conn.req.origin # ""
    /\ conn.req.acrm \in ConfiguredMethods
    /\ conn.req.acrh \subseteq ConfiguredHeaders

C2_AsClaimed == Answered => conn.w.acao = "*"

\* C2 amended: a response carries Access-Control-Allow-Origin: *, the same
\* for every origin, when the request carries an Origin and its method is a
\* configured one (a pre-flight: when it is within the configured policy);
\* the response to a request without Origin carries no such header.
C2_AllowOrigin ==
    Answered =>
        /\ (/\ conn.req.origin # ""
            /\ IF AnsweredPreflight THEN WithinPolicy
               ELSE conn.req.method \in ConfiguredMethods)
           => conn.w.acao = "*"
        /\ conn.req.origin = "" => conn.w.acao = ""

C2_Witness ==
    /\ Answered
    /\ conn.req.origin = "http://b.example"
    /\ conn.req.method = "GET"
    /\ conn.w.acao = "*"

\* C3 as claimed: a pre-flight with an Origin and a configured requested
\* method is answered with a success status, an empty body and
\* Access-Control-Allow-Methods naming that method, and handler does not run.
C3_AsClaimed ==
    (/\ Answered /\ conn.req.method = "OPTIONS" /\ conn.req.origin # ""
     /\ conn.req.acrm \in ConfiguredMethods)
    => /\ Success(conn.w.status)
       /\ conn.w.body = <<>>
       /\ conn.w.acam = conn.req.acrm
       /\ "handler" \notin conn.w.reached

\* C3 amended: such a pre-flight is answered with a success status and an
\* empty body without handler running; Access-Control-Allow-Methods names
\* the requested method when the pre-flight's
\* Access-Control-Request-Headers, if any, name configured headers only,
\* and is absent otherwise.
C3_Preflight ==
    (/\ Answered /\ conn.req.method = "OPTIONS" /\ conn.req.origin # ""
     /\ conn.req.acrm \in ConfiguredMethods)
    => /\ Success(conn.w.status)
       /\ conn.w.body = <<>>
       /\ "handler" \notin conn.w.reached
       /\ conn.w.acam = IF conn.req.acrh \subseteq ConfiguredHeaders
                        THEN conn.req.acrm ELSE ""

C3_Witness ==
    /\ Answered
    /\ conn.req.method = "OPTIONS"
    /\ conn.req.origin = "http://a.example"
    /\ conn.req.acrm = "POST"
    /\ conn.w.acam = "POST"
    /\ conn.w.reached = {"cors"}

FromPod(s) == sess[s].x.state = "done" /\ sess[s].x.pod \in Pods

\* C4: in a session whose fetch a backend pod answers, message is '' (shown
\* as "Loading...") until it is set, once, to "Hello from Go API!", and it
\* keeps that value: it never changes a second time.
C4_SingleAssignment ==
    \A s \in Sessions :
        LET c == sess[s]
        IN  /\ c.changes <= 1
            /\ c.changes = 0 => (c.message = "" /\ c.dom \in {"", "Loading..."})
            /\ c.answered =>
                  /\ c.message \in {"", Hello}
                  /\ c.changes = 1 => (c.message = Hello /\ c.dom = Hello)
                  /\ c.pc \in {"done", "rejected"} => c.changes = 1

C4_Witness ==
    \E s \in Sessions :
        /\ sess[s].answered
        /\ sess[s].pc = "done"
        /\ sess[s].message = Hello
        /\ sess[s].changes = 1

\* C5: a session whose fetch failed (refused, reset, or not let through)
\* shows the loading state from then on: message stays '', nothing is
\* fetched again.
C5_FailureKeepsLoading ==
    \A s \in Sessions :
        (sess[s].pc = "rejected" \/ sess[s].x.state \in {"refused", "reset"}) =>
            /\ sess[s].message = ""
            /\ sess[s].dom = "Loading..."
            /\ sess[s].changes = 0
            /\ sess[s].issued = 1

C5_Witness ==
    \E s \in Sessions :
        /\ sess[s].pc = "rejected"
        /\ sess[s].x.state = "refused"
        /\ ~sess[s].x.up
        /\ Running # {}

\* C6 as claimed: when the fetch completes with a response whose status is
\* not 2xx, message stays ''.
C6_AsClaimed ==
    \A s \in Sessions :
        (sess[s].pc = "done" /\ ~Success(sess[s].res.status)) =>
            sess[s].message = ""

\* C7: a session issues one GET, when it mounts, and no other, however
\* that request ends; no second request is ever in flight.
C7_OneRequest ==
    \A s \in Sessions :
        LET c == sess[s]
        IN  /\ c.issued <= 1
            /\ c.issued = 0 <=> c.pc = "unmounted"
            /\ c.x.state \in {"sent", "accepted", "inner"} =>
                  (c.pc = "fetching" /\ c.x.req.method = "GET")
            /\ c.pc = "fetching" => c.x.state # "idle"
            /\ c.pc \in {"resolved", "text", "done", "rejected"} =>
                  c.x.state \in {"done", "refused", "reset"}

C7_Witness ==
    \E s, t \in Sessions :
        /\ sess[s].pc = "done" /\ sess[s].issued = 1
        /\ sess[t].pc = "rejected" /\ sess[t].issued = 1

\* C8: whichever pods answer, and however the requests interleave, every
\* GET a pod answers gets 200 and the body "Hello from Go API!".
C8_ReplicaInvariant ==
    \A s \in Sessions :
        FromPod(s) =>
            /\ sess[s].x.w.status = 200
            /\ text(sess[s].x.w.body) = Hello
            /\ \A t \in Sessions : FromPod(t) => sess[t].x.w.body = sess[s].x.w.body

C8_Witness ==
    \E s, t \in Sessions :
        /\ FromPod(s) /\ FromPod(t)
        /\ sess[s].x.pod # sess[t].x.pod
        /\ \E u \in Pods \ {sess[s].x.pod, sess[t].x.pod} : u \in Running

\* C9: the request path is wired on port 8080 throughout: a fetch of
\* http://go-api-service:8080/ is refused only when no pod runs, is handed
\* to a pod that listens on the target port, and is answered 200 with the
\* body "Hello from Go API!".
C9_Wiring ==
    /\ ListenPort = TargetPort
    /\ ContainerPort = TargetPort
    /\ FetchTarget = [host |-> ServiceName, port |-> ServicePort]
    /\ \A s \in Sessions :
          LET x == sess[s].x
          IN  /\ x.state = "refused" => ~x.up
              /\ x.state \in {"accepted", "inner"} =>
                    (x.pod \in Running /\ pods[x.pod].listen = TargetPort)
              /\ FromPod(s) => (x.w.status = 200 /\ text(x.w.body) = Hello)

C9_Witness ==
    \E s \in Sessions :
        /\ FromPod(s)
        /\ sess[s].x.up
        /\ sess[s].x.w.status = 200

====
